---- MODULE Spec2Model ----
(***************************************************************************)
(* A model of the news agent service: the conversation cache              *)
(* (ChatService), the brief buffer and the News API wrappers and insight   *)
(* aggregators (NewsService).                                              *)
(*                                                                         *)
(* Three specifications share the variables; each leaves the other parts   *)
(* of the state at their initial values:                                   *)
(*   SpecChat   processMessage / getConversationHistory / clearConversation*)
(*   SpecBrief  sendNewsBrief                                              *)
(*   SpecNews   the six News API operations                                *)
(***************************************************************************)
EXTENDS Integers, Sequences, FiniteSets, TLC

(***************************************************************************)
(* Bounds of the model.                                                    *)
(***************************************************************************)
Users == {"u1", "default"}
Msgs == {"hi"}
\* completed exchanges a run may start from (see ChatInit)
Preloaded == 10
\* processMessage calls started in one run, over all users
MaxCalls == 2
\* processMessage calls waiting for the hosted endpoint at the same time
MaxInFlight == 2
\* clearConversation calls in one run
MaxClears == 1
\* sendNewsBrief calls in one run
MaxBriefs == 12

(***************************************************************************)
(* Program constants.                                                      *)
(***************************************************************************)
HistoryLimit == 20
BriefLimit == 10
NoResponseText == "no response received from agent."
TroubleText == "sorry, i'm having trouble connecting to my brain right now. please try again later."

\* a JavaScript value that is undefined, null or otherwise absent
Absent == "<absent>"

VARIABLES
    conversations,  \* ChatService.conversations: userId -> object (0: no entry)
    heap,           \* messages array of every ConversationContext object made
    calls,          \* processMessage calls suspended at the await
    nCalls,         \* per user, processMessage calls started so far
    nStarted,       \* processMessage calls started in this run
    nClears,        \* clearConversation calls so far
    log,            \* history variable: per object, every message ever pushed
    lastDone        \* history variable: the call that has just returned

VARIABLES
    recentBriefs,   \* NewsService.recentBriefs
    briefClock,     \* the clock new Date() reads, in ticks
    briefLog        \* history variable: the brief of every sendNewsBrief call

VARIABLES
    newsPc,         \* "idle", "awaiting" (suspended at an await) or "done"
    newsOp,         \* the NewsService method that was invoked
    newsArgs,       \* its argument object
    requests,       \* the outbound GETs the invocation has issued, in order
    pending,        \* the indexes of the GETs not answered yet
    received,       \* the answers to the GETs
    newsResult      \* what the invocation returned or threw

chatVars == <<conversations, heap, calls, nCalls, nStarted, nClears, log, lastDone>>
briefVars == <<recentBriefs, briefClock, briefLog>>

newsVars == <<newsPc, newsOp, newsArgs, requests, pending, received, newsResult>>

VARIABLES
    kwPc,           \* "typing" while the two titles are put together, then "done"
    kwTitle,        \* a title given to extractKeywords
    kwVariant,      \* a second title, written differently
    kwResult        \* the keyword lists extractKeywords returned for the two

kwVars == <<kwPc, kwTitle, kwVariant, kwResult>>

VARIABLES
    httpRequest,    \* the last request a route handler was run for
    httpReply,      \* what the handler answered before returning or suspending
    nRequests       \* the number of requests handled so far

routeVars == <<httpRequest, httpReply, nRequests>>

vars == <<chatVars, briefVars, newsVars, kwVars, routeVars>>

(***************************************************************************)
(* JavaScript helpers.                                                     *)
(***************************************************************************)
Min(a, b) == IF a < b THEN a ELSE b
Max(a, b) == IF a > b THEN a ELSE b

\* Array.prototype.slice(start) with a negative start
SliceLast(s, n) ==
    LET from == Max(Len(s) - n, 0)
    IN  SubSeq(s, from + 1, Len(s))

\* Array.prototype.slice(0, n)
SliceFirst(s, n) == SubSeq(s, 1, Min(n, Len(s)))

\* a || b on strings: the empty string and an absent value are falsy
Or(a, b) == IF a = Absent \/ a = "" THEN b ELSE a

(***************************************************************************)
(* ChatService                                                             *)
(***************************************************************************)
IdleCall == [pc |-> "idle", userId |-> Absent, userMessage |-> Absent,
             conversation |-> 0, callNo |-> 0]
NoCall == [userId |-> Absent, userMessage |-> Absent, returned |-> Absent,
           callNo |-> 0]

Message(role, content) == [role |-> role, content |-> content]
LogEntry(role, content, callNo) ==
    [role |-> role, content |-> content, callNo |-> callNo]

\* response.data of the hosted endpoint: the fields processMessage looks at
NoData == [response |-> Absent, message |-> Absent, text |-> Absent,
           dresponse |-> Absent, dmessage |-> Absent]
HostedData ==
    { NoData,
      [NoData EXCEPT !.response = "reply"],
      [NoData EXCEPT !.response = ""],
      [NoData EXCEPT !.message = "reply"],
      [NoData EXCEPT !.text = "reply"],
      [NoData EXCEPT !.dresponse = "reply"],
      [NoData EXCEPT !.dmessage = "reply"],
      [NoData EXCEPT !.response = "", !.message = "reply"] }

\* ChatService.processMessage, lines 57-58: the assistant response of a payload
AssistantResponse(data) ==
    IF data.response # Absent
    THEN data.response
    ELSE Or(data.message, Or(data.text, Or(Or(data.dresponse, data.dmessage), NoResponseText)))

FreeSlot == IF \E c \in 1..MaxInFlight : calls[c].pc = "idle"
            THEN CHOOSE c \in 1..MaxInFlight :
                    /\ calls[c].pc = "idle"
                    /\ \A d \in 1..(c - 1) : calls[d].pc # "idle"
            ELSE 0

\* a lookup that hands the same messages object to every new entry
ConvOf_Shared(userId) ==
    IF conversations[userId] = 0 THEN 1 ELSE conversations[userId]

\* ChatService.getOrCreateConversation: the object of userId and the heap
\* and log after the call
ConvOf(userId) ==
    IF conversations[userId] = 0 THEN Len(heap) + 1 ELSE conversations[userId]
HeapWith(userId) ==
    IF conversations[userId] = 0 THEN Append(heap, <<>>) ELSE heap
LogWith(userId) ==
    IF conversations[userId] = 0 THEN Append(log, <<>>) ELSE log

\* a truncation that keeps the oldest messages instead of the newest
Truncate_KeepOldest(messages) ==
    IF Len(messages) > HistoryLimit THEN SliceFirst(messages, HistoryLimit) ELSE messages

\* the truncation of lines 66-68
Truncate(messages) ==
    IF Len(messages) > HistoryLimit THEN SliceLast(messages, HistoryLimit) ELSE messages

\* processMessage up to the await: lines 38-48
ProcessMessageCall(userId, userMessage) ==
    /\ nStarted < MaxCalls
    /\ nStarted' = nStarted + 1
    /\ FreeSlot # 0
    /\ LET c == FreeSlot
           conv == ConvOf(userId)
           no == nCalls[userId] + 1
       IN  /\ conversations' = [conversations EXCEPT ![userId] = conv]
           /\ heap' = [HeapWith(userId) EXCEPT
                         ![conv] = Append(@, Message("user", userMessage))]
           /\ log' = [LogWith(userId) EXCEPT
                         ![conv] = Append(@, LogEntry("user", userMessage, no))]
           /\ calls' = [calls EXCEPT ![c] =
                         [pc |-> "awaiting", userId |-> userId,
                          userMessage |-> userMessage, conversation |-> conv,
                          callNo |-> no]]
           /\ nCalls' = [nCalls EXCEPT ![userId] = no]
    /\ lastDone' = NoCall
    /\ UNCHANGED nClears

\* a processMessage call made on the service itself
ProcessMessageStart(userId, userMessage) ==
    /\ ProcessMessageCall(userId, userMessage)
    /\ UNCHANGED <<briefVars, newsVars, kwVars, routeVars>>

\* a continuation that looks the conversation up again by user id instead
\* of using the object it got before the await
HostedReply_Relookup(c, data) ==
    /\ calls[c].pc = "awaiting"
    /\ LET call == calls[c]
           conv == ConvOf(call.userId)
           assistantResponse == AssistantResponse(data)
       IN  /\ conversations' = [conversations EXCEPT ![call.userId] = conv]
           /\ heap' = [HeapWith(call.userId) EXCEPT ![conv] =
                         Truncate(Append(@, Message("assistant", assistantResponse)))]
           /\ log' = [LogWith(call.userId) EXCEPT ![conv] =
                         Append(@, LogEntry("assistant", assistantResponse, call.callNo))]
           /\ lastDone' = [userId |-> call.userId, userMessage |-> call.userMessage,
                           returned |-> assistantResponse, callNo |-> call.callNo]
    /\ calls' = [calls EXCEPT ![c] = IdleCall]
    /\ UNCHANGED <<nCalls, nStarted, nClears>>
    /\ UNCHANGED <<briefVars, newsVars, kwVars, routeVars>>

\* processMessage after the hosted endpoint answered: lines 57-70
HostedReply(c, data) ==
    /\ calls[c].pc = "awaiting"
    /\ LET call == calls[c]
           assistantResponse == AssistantResponse(data)
       IN  /\ heap' = [heap EXCEPT ![call.conversation] =
                         Truncate(Append(@, Message("assistant", assistantResponse)))]
           /\ log' = [log EXCEPT ![call.conversation] =
                         Append(@, LogEntry("assistant", assistantResponse, call.callNo))]
           /\ lastDone' = [userId |-> call.userId, userMessage |-> call.userMessage,
                           returned |-> assistantResponse, callNo |-> call.callNo]
    /\ calls' = [calls EXCEPT ![c] = IdleCall]
    /\ UNCHANGED <<conversations, nCalls, nStarted, nClears>>
    /\ UNCHANGED <<briefVars, newsVars, kwVars, routeVars>>

\* a hosted call without the timeout option: it rejects on an error only
HostedFail_NoTimeout(c, kind) ==
    /\ calls[c].pc = "awaiting"
    /\ kind = "error"
    /\ lastDone' = [userId |-> calls[c].userId, userMessage |-> calls[c].userMessage,
                    returned |-> TroubleText, callNo |-> calls[c].callNo]
    /\ calls' = [calls EXCEPT ![c] = IdleCall]
    /\ UNCHANGED <<conversations, heap, log, nCalls, nStarted, nClears>>
    /\ UNCHANGED <<briefVars, newsVars, kwVars, routeVars>>

\* processMessage when the hosted call rejects (transport error, non-2xx
\* status, or the 120 s timeout): lines 71-74
HostedFail(c, kind) ==
    /\ calls[c].pc = "awaiting"
    /\ kind \in {"error", "timeout"}
    /\ lastDone' = [userId |-> calls[c].userId, userMessage |-> calls[c].userMessage,
                    returned |-> TroubleText, callNo |-> calls[c].callNo]
    /\ calls' = [calls EXCEPT ![c] = IdleCall]
    /\ UNCHANGED <<conversations, heap, log, nCalls, nStarted, nClears>>
    /\ UNCHANGED <<briefVars, newsVars, kwVars, routeVars>>

\* ChatService.getConversationHistory
GetConversationHistory(userId) ==
    /\ conversations' = [conversations EXCEPT ![userId] = ConvOf(userId)]
    /\ heap' = HeapWith(userId)
    /\ log' = LogWith(userId)
    /\ lastDone' = NoCall
    /\ UNCHANGED <<calls, nCalls, nStarted, nClears>>
    /\ UNCHANGED <<briefVars, newsVars, kwVars, routeVars>>

\* ChatService.clearConversation
ClearConversation(userId) ==
    /\ nClears < MaxClears
    /\ nClears' = nClears + 1
    /\ conversations' = [conversations EXCEPT ![userId] = 0]
    /\ lastDone' = NoCall
    /\ UNCHANGED <<heap, log, calls, nCalls, nStarted>>
    /\ UNCHANGED <<briefVars, newsVars, kwVars, routeVars>>

\* one processMessage call that runs alone and gets the agent's reply:
\* the messages array and its log after the call
RECURSIVE Exchanged(_)
Exchanged(n) ==
    IF n = 0 THEN <<>>
    ELSE Truncate(Exchanged(n - 1) \o <<Message("user", "hi"), Message("assistant", "reply")>>)
RECURSIVE ExchangedLog(_)
ExchangedLog(n) ==
    IF n = 0 THEN <<>>
    ELSE ExchangedLog(n - 1) \o <<LogEntry("user", "hi", n), LogEntry("assistant", "reply", n)>>

\* a new ChatService
ChatFresh ==
    /\ conversations = [u \in Users |-> 0]
    /\ heap = <<>>
    /\ log = <<>>
    /\ nCalls = [u \in Users |-> 0]

\* A run starts from a new ChatService, or from a service on which user u1
\* has completed Preloaded exchanges one after the other.
ChatInit ==
    /\ calls = [c \in 1..MaxInFlight |-> IdleCall]
    /\ nStarted = 0
    /\ nClears = 0
    /\ lastDone = NoCall
    /\ \/ ChatFresh
       \/ /\ conversations = [u \in Users |-> IF u = "u1" THEN 1 ELSE 0]
          /\ heap = <<Exchanged(Preloaded)>>
          /\ log = <<ExchangedLog(Preloaded)>>
          /\ nCalls = [u \in Users |-> IF u = "u1" THEN Preloaded ELSE 0]

ChatNext ==
    \/ \E u \in Users, m \in Msgs : ProcessMessageStart(u, m)
    \/ \E c \in 1..MaxInFlight, d \in HostedData : HostedReply(c, d)
    \/ \E c \in 1..MaxInFlight, k \in {"error", "timeout"} : HostedFail(c, k)
    \/ \E u \in Users : GetConversationHistory(u)
    \/ \E u \in Users : ClearConversation(u)

(***************************************************************************)
(* NewsService.sendNewsBrief                                               *)
(***************************************************************************)
Priorities == {Absent, "high"}
Summaries == {"brief"}

\* Array.prototype.unshift and Array.prototype.pop
Unshift(arr, x) == <<x>> \o arr
Pop_Shift(arr) == SubSeq(arr, 2, Len(arr))
Pop(arr) == SubSeq(arr, 1, Len(arr) - 1)

Brief(summary, priority, timestamp) ==
    [summary |-> summary, priority |-> Or(priority, "medium"), timestamp |-> timestamp]

\* sendNewsBrief: lines 216-225
SendNewsBrief(summary, priority) ==
    /\ Len(briefLog) < MaxBriefs
    /\ LET timestamp == briefClock
           brief == Brief(summary, priority, timestamp)
           pushed == Unshift(recentBriefs, brief)
       IN  /\ recentBriefs' = IF Len(pushed) > BriefLimit THEN Pop(pushed) ELSE pushed
           /\ briefLog' = Append(briefLog, brief)
    /\ briefClock' = briefClock + 1
    /\ UNCHANGED <<chatVars, newsVars, kwVars, routeVars>>

BriefInit ==
    /\ recentBriefs = <<>>
    /\ briefClock = 0
    /\ briefLog = <<>>

BriefNext == \E s \in Summaries, p \in Priorities : SendNewsBrief(s, p)

(***************************************************************************)
(* NewsService: helpers                                                    *)
(***************************************************************************)
\* an optional numeric argument as JavaScript sees it
Num(n) == [kind |-> "num", val |-> n]
Undef == [kind |-> "undefined", val |-> 0]
NaN == [kind |-> "nan", val |-> 0]

\* x || d for an optional number: undefined, NaN and 0 are falsy
OrNum(x, d) == IF x.kind # "num" \/ x.val = 0 THEN d ELSE x.val

\* text is a sequence of one-character strings
UpperLetters == {"A", "B", "C", "D", "E", "F", "G", "H", "I", "J", "K", "L", "M",
                 "N", "O", "P", "Q", "R", "S", "T", "U", "V", "W", "X", "Y", "Z"}
LowerLetters == {"a", "b", "c", "d", "e", "f", "g", "h", "i", "j", "k", "l", "m",
                 "n", "o", "p", "q", "r", "s", "t", "u", "v", "w", "x", "y", "z"}
Digits == {"0", "1", "2", "3", "4", "5", "6", "7", "8", "9"}
Whitespace == {" "}
LowerCase ==
    [c \in UpperLetters |->
        CASE c = "A" -> "a"
          [] c = "B" -> "b"
          [] c = "C" -> "c"
          [] c = "D" -> "d"
          [] c = "E" -> "e"
          [] c = "F" -> "f"
          [] c = "G" -> "g"
          [] c = "H" -> "h"
          [] c = "I" -> "i"
          [] c = "J" -> "j"
          [] c = "K" -> "k"
          [] c = "L" -> "l"
          [] c = "M" -> "m"
          [] c = "N" -> "n"
          [] c = "O" -> "o"
          [] c = "P" -> "p"
          [] c = "Q" -> "q"
          [] c = "R" -> "r"
          [] c = "S" -> "s"
          [] c = "T" -> "t"
          [] c = "U" -> "u"
          [] c = "V" -> "v"
          [] c = "W" -> "w"
          [] c = "X" -> "x"
          [] c = "Y" -> "y"
          [] c = "Z" -> "z"]

\* a conversion that leaves upper-case letters as they are
ToLowerCase_Unchanged(text) == text

\* String.prototype.toLowerCase
ToLowerCase(text) ==
    [i \in 1..Len(text) |-> IF text[i] \in UpperLetters THEN LowerCase[text[i]] ELSE text[i]]

\* replace(/[^a-z0-9\s]/g, ' ')
StripPunctuation(text) ==
    [i \in 1..Len(text) |->
        IF text[i] \in LowerLetters \cup Digits \cup Whitespace THEN text[i] ELSE " "]

\* split(/\s+/): the pieces between runs of whitespace, empty pieces at the
\* ends included
RECURSIVE SplitFrom(_, _, _)
SplitFrom(text, i, piece) ==
    IF i > Len(text) THEN <<piece>>
    ELSE IF text[i] \in Whitespace
         THEN IF i > 1 /\ text[i - 1] \in Whitespace
              THEN SplitFrom(text, i + 1, piece)
              ELSE <<piece>> \o SplitFrom(text, i + 1, <<>>)
         ELSE SplitFrom(text, i + 1, Append(piece, text[i]))
SplitWhitespace(text) == SplitFrom(text, 1, <<>>)

StopWords ==
    { <<"t", "h", "e">>,
      <<"a">>,
      <<"a", "n">>,
      <<"a", "n", "d">>,
      <<"o", "r">>,
      <<"f", "o", "r">>,
      <<"w", "i", "t", "h">>,
      <<"f", "r", "o", "m">>,
      <<"t", "h", "i", "s">>,
      <<"t", "h", "a", "t">>,
      <<"i", "n", "t", "o">>,
      <<"a", "b", "o", "u", "t">>,
      <<"a", "f", "t", "e", "r">>,
      <<"b", "e", "f", "o", "r", "e">>,
      <<"o", "v", "e", "r">>,
      <<"u", "n", "d", "e", "r">>,
      <<"t", "h", "e", "i", "r">>,
      <<"t", "h", "e", "y">>,
      <<"t", "h", "e", "m">>,
      <<"y", "o", "u">>,
      <<"y", "o", "u", "r">>,
      <<"w", "i", "l", "l">>,
      <<"s", "a", "i", "d">>,
      <<"s", "a", "y", "s">>,
      <<"n", "e", "w">>,
      <<"m", "o", "r", "e">>,
      <<"h", "a", "s">>,
      <<"h", "a", "v", "e">>,
      <<"w", "a", "s">>,
      <<"w", "e", "r", "e">>,
      <<"a", "r", "e">>,
      <<"i", "s">>,
      <<"a", "t">>,
      <<"t", "o">>,
      <<"i", "n">>,
      <<"o", "n">>,
      <<"o", "f">>,
      <<"a", "s">>,
      <<"b", "y">>,
      <<"b", "e">>,
      <<"i", "t">>,
      <<"i", "t", "s">> }

MinKeywordLength == 3

\* NewsService.extractKeywords: lines 62-74
extractKeywords(text) ==
    LET KeepWord(w) == Len(w) > MinKeywordLength /\ w \notin StopWords
    IN  SelectSeq(SplitWhitespace(StripPunctuation(ToLowerCase(text))), KeepWord)

(***************************************************************************)
(* News API payloads                                                       *)
(***************************************************************************)
TitleBoom == <<"A", "I", " ", "c", "h", "i", "p", "s", " ", "b", "o", "o", "m">>
TitleShout == <<"T", "h", "e", " ", "A", "I", "-", "C", "h", "i", "p", "s", " ", "B", "O", "O", "M", "!">>
TitleBanks == <<"B", "a", "n", "k", "s", " ", "c", "u", "t", " ", "2", "0", "2", "5", " ", "j", "o", "b", "s">>
TitleFrom == <<" ", "c", "h", "i", "p", "s", " ", "f", "r", "o", "m", " ", "t", "h", "i", "s", " ", "y", "e", "a", "r">>

\* a title that is missing (undefined or null)
NoText == <<Absent>>
\* a || b on text
OrText(a, b) == IF a = NoText \/ a = <<>> THEN b ELSE a

RawArticle(title, description, url, source, publishedAt, author, content) ==
    [title |-> title, description |-> description, url |-> url, source |-> source,
     publishedAt |-> publishedAt, author |-> author, content |-> content]

\* the articles the News API serves, newest first
Feed ==
    << RawArticle(TitleBoom, "d1", "http://1", "Reuters", "t8", "ann", "c1"),
       RawArticle(TitleShout, "d2", "http://2", "BBC", "t7", Absent, Absent),
       RawArticle(TitleBanks, Absent, "http://3", "Reuters", "t6", "bob", Absent),
       RawArticle(NoText, Absent, Absent, Absent, Absent, Absent, Absent),
       RawArticle(TitleFrom, "", "http://5", "CNN", "t4", "", "c5"),
       RawArticle(TitleBoom, "d6", "http://6", "BBC", "t3", "cat", "c6"),
       RawArticle(TitleBanks, "d7", "http://7", "Wired", "t2", "dan", "c7"),
       RawArticle(TitleShout, "d8", "http://8", "BBC", "t1", "eve", "c8") >>

\* the article arrays of at most n articles a response can carry
ArticleLists(n) ==
    {<<>>} \cup UNION { { SubSeq(Feed, i, j) : j \in i..Min(i + n - 1, Len(Feed)) } :
                          i \in 1..Len(Feed) }


\* bounds of the payloads and the arguments
MaxArticles == 7
MaxCompareArticles == 4
Totals == {0, 7}
PageSizeInputs == {Undef, NaN} \cup {Num(n) : n \in {-5, 0, 1, 20, 99, 100, 101, 500}}
DaysInputs == {Undef, NaN} \cup {Num(n) : n \in {-3, 0, 1, 5, 14, 15, 100}}

\* a response of the News API: the request rejects (no connection, or a
\* status outside 2xx), or it resolves with a body, which may lack the
\* articles array
\* (isArray: whether the body has an articles array)
Payloads(n) ==
    { [isArray |-> TRUE, totalResults |-> t, articles |-> l] :
        t \in Totals, l \in ArticleLists(n) }
NoPayload == [isArray |-> FALSE, totalResults |-> 0, articles |-> <<>>]
Responses(n) ==
    { [status |-> st, data |-> NoPayload] : st \in {"network", "non2xx"} }
    \cup { [status |-> "ok", data |-> d] : d \in Payloads(n) \cup {NoPayload} }
NoResponse == [status |-> "none", data |-> NoPayload]

(***************************************************************************)
(* NewsService: the News API operations                                    *)
(***************************************************************************)
MaxPageSize == 100
DefaultPageSize == 20
DefaultCompanyPageSize == 10
PulseDefaultDays == 7
PulseMaxDays == 14
MoversDefaultDays == 3
MoversMaxDays == 7
MinDays == 1
DefaultMoversQuery == "earnings OR merger OR layoffs"

\* a normalization that leaves a missing author empty
normalizeArticle_NoAuthorDefault(article) ==
    [title |-> OrText(article.title, <<>>),
     description |-> Or(article.description, ""),
     url |-> Or(article.url, ""),
     source |-> Or(article.source, "unknown"),
     publishedAt |-> Or(article.publishedAt, ""),
     author |-> Or(article.author, ""),
     content |-> Or(article.content, Or(article.description, ""))]

\* NewsService.normalizeArticles: lines 44-54
normalizeArticle(article) ==
    [title |-> OrText(article.title, <<>>),
     description |-> Or(article.description, ""),
     url |-> Or(article.url, ""),
     source |-> Or(article.source, "unknown"),
     publishedAt |-> Or(article.publishedAt, ""),
     author |-> Or(article.author, "Unknown"),
     content |-> Or(article.content, Or(article.description, ""))]
normalizeArticles(articles) == [i \in 1..Len(articles) |-> normalizeArticle(articles[i])]

\* the value of a try block: a returned value, or a thrown error
Returned(v) == [threw |-> FALSE, value |-> v]
Thrown == [threw |-> TRUE, value |-> Absent]

\* what awaiting axios.get and reading response.data.articles gives
Fetched(resp) ==
    IF resp.status # "ok" THEN Thrown
    ELSE IF ~resp.data.isArray THEN Thrown
    ELSE Returned([articles |-> normalizeArticles(resp.data.articles),
                   totalResults |-> resp.data.totalResults])

\* a catch block that lets the error through
CatchReturn_Rethrow(body, fallback) == body

\* try { body } catch { return fallback }
CatchReturn(body, fallback) == IF body.threw THEN Returned(fallback) ELSE body

EmptyResult == [articles |-> <<>>, totalResults |-> 0]

Headline(a) == [title |-> a.title, source |-> a.source, publishedAt |-> a.publishedAt, url |-> a.url]
Headlines(articles, n) ==
    LET first == SliceFirst(articles, n)
    IN  [i \in 1..Len(first) |-> Headline(first[i])]

\* a page size without the cap
PageSize_NoCap(pageSize, fallback) == OrNum(pageSize, fallback)

\* Math.min(args.pageSize || fallback, 100)
PageSize(pageSize, fallback) == Min(OrNum(pageSize, fallback), MaxPageSize)

\* Math.min(Math.max(args.days || fallback, 1), cap)
WindowDays(days, fallback, cap) == Min(Max(OrNum(days, fallback), MinDays), cap)

NoParams == [q |-> Absent, country |-> Absent, category |-> Absent, sortBy |-> Absent,
             language |-> Absent, pageSize |-> 0, fromDaysAgo |-> 0,
             from |-> Absent, to |-> Absent]
Get(endpoint, params) == [endpoint |-> endpoint, params |-> params]


\* Map.set(key, (Map.get(key) || 0) + 1) on a Map kept in insertion order
CountKey(entries, key) ==
    IF \E i \in 1..Len(entries) : entries[i].key = key
    THEN [i \in 1..Len(entries) |->
            IF entries[i].key = key
            THEN [key |-> key, count |-> entries[i].count + 1]
            ELSE entries[i]]
    ELSE Append(entries, [key |-> key, count |-> 1])
RECURSIVE Tally(_, _)
Tally(entries, keys) ==
    IF keys = <<>> THEN entries ELSE Tally(CountKey(entries, Head(keys)), Tail(keys))

\* a sort that puts the later of two equal counts first
RECURSIVE SortByCount_TiesReversed(_)
SortByCount_TiesReversed(entries) ==
    IF entries = <<>> THEN <<>>
    ELSE LET rest == SortByCount_TiesReversed(SubSeq(entries, 1, Len(entries) - 1))
             e == entries[Len(entries)]
             before == SelectSeq(rest, LAMBDA x : x.count > e.count)
             after == SelectSeq(rest, LAMBDA x : x.count <= e.count)
         IN  before \o <<e>> \o after

\* [...entries].sort((a, b) => b[1] - a[1]): stable, larger counts first
RECURSIVE SortByCount(_)
SortByCount(entries) ==
    IF entries = <<>> THEN <<>>
    ELSE LET rest == SortByCount(SubSeq(entries, 1, Len(entries) - 1))
             e == entries[Len(entries)]
             before == SelectSeq(rest, LAMBDA x : x.count >= e.count)
             after == SelectSeq(rest, LAMBDA x : x.count < e.count)
         IN  before \o <<e>> \o after

RECURSIVE TitleKeywords(_)
TitleKeywords(articles) ==
    IF articles = <<>> THEN <<>>
    ELSE extractKeywords(Head(articles).title) \o TitleKeywords(Tail(articles))

TopSourcesCount == 3
TopKeywordsCount == 5
NotableCount == 5
CompareHeadlinesCount == 3
EventsCount == 6
PulsePageSize == 15
ComparePageSize == 10

\* getIndustryPulse, lines 261-276
PulseResult(args, windowDays, fetched) ==
    LET articles == fetched.articles
        sourceCount == Tally(<<>>, [i \in 1..Len(articles) |-> articles[i].source])
        keywordCount == Tally(<<>>, TitleKeywords(articles))
    IN  [industry |-> args.industry, windowDays |-> windowDays,
         totalResults |-> fetched.totalResults,
         topSources |-> SliceFirst(SortByCount(sourceCount), TopSourcesCount),
         topKeywords |-> SliceFirst(SortByCount(keywordCount), TopKeywordsCount),
         notableHeadlines |-> Headlines(articles, NotableCount)]
\* getIndustryPulse, line 279
PulseFallback(args) ==
    [industry |-> args.industry, windowDays |-> OrNum(args.days, PulseDefaultDays),
     totalResults |-> 0, topSources |-> <<>>, topKeywords |-> <<>>,
     notableHeadlines |-> <<>>]

\* a comparison that subtracts the wrong way round
CompareResult_Reversed(args, windowDays, a, b) ==
    [windowDays |-> windowDays,
     companyA |-> [name |-> args.companyA, totalResults |-> a.totalResults,
                   recentHeadlines |-> Headlines(a.articles, 3)],
     companyB |-> [name |-> args.companyB, totalResults |-> b.totalResults,
                   recentHeadlines |-> Headlines(b.articles, 3)],
     deltaCoverage |-> b.totalResults - a.totalResults]

\* compareCompanyCoverage, lines 327-334
CompareResult(args, windowDays, a, b) ==
    [windowDays |-> windowDays,
     companyA |-> [name |-> args.companyA, totalResults |-> a.totalResults,
                   recentHeadlines |-> Headlines(a.articles, CompareHeadlinesCount)],
     companyB |-> [name |-> args.companyB, totalResults |-> b.totalResults,
                   recentHeadlines |-> Headlines(b.articles, CompareHeadlinesCount)],
     deltaCoverage |-> a.totalResults - b.totalResults]
\* compareCompanyCoverage, line 337
CompareFallback(args) ==
    [windowDays |-> OrNum(args.days, PulseDefaultDays),
     companyA |-> [name |-> args.companyA, totalResults |-> 0, recentHeadlines |-> <<>>],
     companyB |-> [name |-> args.companyB, totalResults |-> 0, recentHeadlines |-> <<>>],
     deltaCoverage |-> 0]

\* a market-movers result that keeps every fetched article
MoversResult_NoLimit(windowDays, fetched) ==
    [windowDays |-> windowDays, totalScanned |-> fetched.totalResults,
     events |-> [i \in 1..Len(fetched.articles) |->
                   [title |-> fetched.articles[i].title, source |-> fetched.articles[i].source,
                    publishedAt |-> fetched.articles[i].publishedAt,
                    url |-> fetched.articles[i].url, trigger |-> "event"]]]

\* getMarketMovingEvents, lines 366-374
MoversResult(windowDays, fetched) ==
    LET first == SliceFirst(fetched.articles, EventsCount)
    IN  [windowDays |-> windowDays, totalScanned |-> fetched.totalResults,
         events |-> [i \in 1..Len(first) |->
                       [title |-> first[i].title, source |-> first[i].source,
                        publishedAt |-> first[i].publishedAt, url |-> first[i].url,
                        trigger |-> "event"]]]
\* getMarketMovingEvents, line 377
MoversFallback(args) ==
    [windowDays |-> OrNum(args.days, MoversDefaultDays), totalScanned |-> 0, events |-> <<>>]

NoArgs == [country |-> Absent, category |-> Absent, pageSize |-> Undef, query |-> Absent,
           sortBy |-> Absent, language |-> Absent, companyName |-> Absent,
           dateFrom |-> Absent, dateTo |-> Absent, industry |-> Absent, days |-> Undef,
           companyA |-> Absent, companyB |-> Absent]
NoResult == [threw |-> FALSE, value |-> Absent]

\* a method runs up to its await: it has issued the GETs gets
Invoke(op, args, gets) ==
    /\ newsPc = "idle"
    /\ newsPc' = "awaiting"
    /\ newsOp' = op
    /\ newsArgs' = args
    /\ requests' = gets
    /\ pending' = 1..Len(gets)
    /\ received' = [i \in 1..Len(gets) |-> NoResponse]
    /\ newsResult' = NoResult

\* the same for a call made on the service itself
Await(op, args, gets) ==
    /\ Invoke(op, args, gets)
    /\ UNCHANGED <<chatVars, briefVars, kwVars, routeVars>>

\* a method returns before any await
ReturnNow(op, args, value) ==
    /\ newsPc = "idle"
    /\ newsPc' = "done"
    /\ newsOp' = op
    /\ newsArgs' = args
    /\ requests' = <<>>
    /\ pending' = {}
    /\ received' = <<>>
    /\ newsResult' = Returned(value)

\* getTopHeadlines up to the await: lines 97-105
GetTopHeadlines(country, category, pageSize) ==
    Await("getTopHeadlines",
          [NoArgs EXCEPT !.country = country, !.category = category, !.pageSize = pageSize],
          << Get("top-headlines",
                 [NoParams EXCEPT !.country = Or(country, "us"),
                                  !.pageSize = PageSize(pageSize, DefaultPageSize),
                                  !.category = Or(category, Absent)]) >>)

\* searchNews up to the await: lines 138-148
SearchArgs(query, sortBy, language, pageSize) ==
    [NoArgs EXCEPT !.query = query, !.sortBy = sortBy,
                   !.language = language, !.pageSize = pageSize]
SearchGets(query, sortBy, language, pageSize) ==
    << Get("everything",
           [NoParams EXCEPT !.q = query,
                            !.sortBy = Or(sortBy, "relevancy"),
                            !.language = Or(language, "en"),
                            !.pageSize = PageSize(pageSize, DefaultPageSize)]) >>
SearchNewsCall(query, sortBy, language, pageSize) ==
    IF Or(query, Absent) = Absent
    THEN ReturnNow("searchNews", SearchArgs(query, sortBy, language, pageSize),
                   EmptyResult)
    ELSE Invoke("searchNews", SearchArgs(query, sortBy, language, pageSize),
                SearchGets(query, sortBy, language, pageSize))

\* a searchNews call made on the service itself
SearchNews(query, sortBy, language, pageSize) ==
    /\ SearchNewsCall(query, sortBy, language, pageSize)
    /\ UNCHANGED <<chatVars, briefVars, kwVars, routeVars>>

\* getCompanyNews up to the await: lines 181-193
CompanyArgs(companyName, dateFrom, dateTo, pageSize) ==
    [NoArgs EXCEPT !.companyName = companyName, !.dateFrom = dateFrom,
                   !.dateTo = dateTo, !.pageSize = pageSize]
CompanyGets(companyName, dateFrom, dateTo, pageSize) ==
    << Get("everything",
           [NoParams EXCEPT !.q = companyName,
                            !.sortBy = "publishedAt",
                            !.language = "en",
                            !.pageSize = PageSize(pageSize, DefaultCompanyPageSize),
                            !.from = Or(dateFrom, Absent),
                            !.to = Or(dateTo, Absent)]) >>

\* a getCompanyNews without the test of line 183
GetCompanyNewsCall_NoGuard(companyName, dateFrom, dateTo, pageSize) ==
    Invoke("getCompanyNews", CompanyArgs(companyName, dateFrom, dateTo, pageSize),
           CompanyGets(companyName, dateFrom, dateTo, pageSize))

GetCompanyNewsCall(companyName, dateFrom, dateTo, pageSize) ==
    IF Or(companyName, Absent) = Absent
    THEN ReturnNow("getCompanyNews", CompanyArgs(companyName, dateFrom, dateTo, pageSize),
                   EmptyResult)
    ELSE Invoke("getCompanyNews", CompanyArgs(companyName, dateFrom, dateTo, pageSize),
                CompanyGets(companyName, dateFrom, dateTo, pageSize))

\* a getCompanyNews call made on the service itself
GetCompanyNews(companyName, dateFrom, dateTo, pageSize) ==
    /\ GetCompanyNewsCall(companyName, dateFrom, dateTo, pageSize)
    /\ UNCHANGED <<chatVars, briefVars, kwVars, routeVars>>

\* getIndustryPulse up to the await: lines 248-260
PulseArgs(industry, days, language) ==
    [NoArgs EXCEPT !.industry = industry, !.days = days, !.language = language]
PulseGets(industry, days, language) ==
    << Get("everything",
           [NoParams EXCEPT !.q = industry,
                            !.fromDaysAgo = WindowDays(days, PulseDefaultDays, PulseMaxDays),
                            !.sortBy = "publishedAt",
                            !.language = Or(language, "en"),
                            !.pageSize = PulsePageSize]) >>
GetIndustryPulse(industry, days, language) ==
    Await("getIndustryPulse", PulseArgs(industry, days, language),
          PulseGets(industry, days, language))

\* compareCompanyCoverage up to the await of Promise.all: lines 315-326
CompareArgs(companyA, companyB, days) ==
    [NoArgs EXCEPT !.companyA = companyA, !.companyB = companyB, !.days = days]
CompareGets(companyA, companyB, days) ==
    LET windowDays == WindowDays(days, PulseDefaultDays, PulseMaxDays)
        search(q) == Get("everything",
                         [NoParams EXCEPT !.q = q, !.fromDaysAgo = windowDays,
                                          !.sortBy = "publishedAt", !.language = "en",
                                          !.pageSize = ComparePageSize])
    IN  << search(companyA), search(companyB) >>
CompareCompanyCoverage(companyA, companyB, days) ==
    Await("compareCompanyCoverage", CompareArgs(companyA, companyB, days),
          CompareGets(companyA, companyB, days))

\* getMarketMovingEvents up to the await: lines 359-365
GetMarketMovingEvents(query, days) ==
    Await("getMarketMovingEvents",
          [NoArgs EXCEPT !.query = query, !.days = days],
          << Get("everything",
                 [NoParams EXCEPT !.q = Or(query, DefaultMoversQuery),
                                  !.fromDaysAgo = WindowDays(days, MoversDefaultDays, MoversMaxDays),
                                  !.sortBy = "publishedAt", !.language = "en",
                                  !.pageSize = PulsePageSize]) >>)

\* the rest of a method with one GET, once the GET is answered
Outcome(op, args, resp) ==
    LET fetched == Fetched(resp)
    IN  CASE op \in {"getTopHeadlines", "searchNews", "getCompanyNews"} ->
               CatchReturn(fetched, EmptyResult)
          [] op = "getIndustryPulse" ->
               CatchReturn(IF fetched.threw THEN Thrown
                           ELSE Returned(PulseResult(args,
                                    WindowDays(args.days, PulseDefaultDays, PulseMaxDays),
                                    fetched.value)),
                           PulseFallback(args))
          [] op = "getMarketMovingEvents" ->
               CatchReturn(IF fetched.threw THEN Thrown
                           ELSE Returned(MoversResult(
                                    WindowDays(args.days, MoversDefaultDays, MoversMaxDays),
                                    fetched.value)),
                           MoversFallback(args))

\* the rest of compareCompanyCoverage once both GETs are answered
CompareOutcome(args, aRes, bRes) ==
    LET a == Fetched(aRes)
        b == Fetched(bRes)
    IN  CatchReturn(IF a.threw \/ b.threw THEN Thrown
                    ELSE Returned(CompareResult(args,
                             WindowDays(args.days, PulseDefaultDays, PulseMaxDays),
                             a.value, b.value)),
                    CompareFallback(args))

\* the News API answers the GET of a method with one request
Respond(resp) ==
    /\ newsPc = "awaiting"
    /\ newsOp # "compareCompanyCoverage"
    /\ pending = {1}
    /\ pending' = {}
    /\ received' = <<resp>>
    /\ newsResult' = Outcome(newsOp, newsArgs, resp)
    /\ newsPc' = "done"
    /\ UNCHANGED <<newsOp, newsArgs, requests>>
    /\ UNCHANGED <<chatVars, briefVars, kwVars, routeVars>>

\* the News API answers one of the two GETs of compareCompanyCoverage:
\* Promise.all rejects at the first rejection and resolves when both resolved
CompareRespond(i, resp) ==
    /\ newsPc = "awaiting"
    /\ newsOp = "compareCompanyCoverage"
    /\ i \in pending
    /\ pending' = pending \ {i}
    /\ received' = [received EXCEPT ![i] = resp]
    /\ IF resp.status # "ok"
       THEN /\ newsResult' = Returned(CompareFallback(newsArgs))
            /\ newsPc' = "done"
       ELSE IF pending = {i}
            THEN /\ newsResult' = CompareOutcome(newsArgs, received'[1], received'[2])
                 /\ newsPc' = "done"
            ELSE UNCHANGED <<newsResult, newsPc>>
    /\ UNCHANGED <<newsOp, newsArgs, requests>>
    /\ UNCHANGED <<chatVars, briefVars, kwVars, routeVars>>

\* an answer to a GET of compareCompanyCoverage arrives after the method
\* returned: nothing listens to it
LateRespond(i, resp) ==
    /\ newsPc = "done"
    /\ i \in pending
    /\ pending' = pending \ {i}
    /\ received' = [received EXCEPT ![i] = resp]
    /\ UNCHANGED <<newsPc, newsOp, newsArgs, requests, newsResult>>
    /\ UNCHANGED <<chatVars, briefVars, kwVars, routeVars>>

\* the caller has taken the result and every GET is settled: the invocation
\* leaves nothing behind
Finish ==
    /\ newsPc = "done"
    /\ pending = {}
    /\ newsPc' = "idle"
    /\ newsOp' = Absent
    /\ newsArgs' = NoArgs
    /\ requests' = <<>>
    /\ received' = <<>>
    /\ newsResult' = NoResult
    /\ UNCHANGED pending
    /\ UNCHANGED <<chatVars, briefVars, kwVars, routeVars>>

NewsInit ==
    /\ newsPc = "idle"
    /\ newsOp = Absent
    /\ newsArgs = NoArgs
    /\ requests = <<>>
    /\ pending = {}
    /\ received = <<>>
    /\ newsResult = NoResult

Companies == {"apple", "msft"}

NewsNext ==
    \/ \E c \in {Absent, "gb"}, g \in {Absent, "business"}, n \in PageSizeInputs :
          GetTopHeadlines(c, g, n)
    \/ \E q \in {Absent, "", "ai"}, o \in {Absent, "popularity"}, l \in {Absent, "fr"},
          n \in PageSizeInputs : SearchNews(q, o, l, n)
    \/ \E c \in {Absent, "", "apple"}, f \in {Absent, "2025-01-01"}, t \in {Absent, "2025-02-01"},
          n \in PageSizeInputs : GetCompanyNews(c, f, t, n)
    \/ \E d \in DaysInputs, l \in {Absent, "fr"} : GetIndustryPulse("fintech", d, l)
    \/ \E a \in Companies, b \in Companies, d \in DaysInputs :
          a # b /\ CompareCompanyCoverage(a, b, d)
    \/ \E q \in {Absent, "", "ipo"}, d \in DaysInputs : GetMarketMovingEvents(q, d)
    \/ \E r \in Responses(MaxArticles) : Respond(r)
    \/ \E i \in {1, 2}, r \in Responses(MaxCompareArticles) : CompareRespond(i, r)
    \/ \E i \in {1, 2}, r \in Responses(MaxCompareArticles) : LateRespond(i, r)
    \/ Finish

(***************************************************************************)
(* Keyword extraction on its own: two titles are written character by      *)
(* character, the second one differing from the first in letter case and   *)
(* in punctuation, and extractKeywords is applied to both.                 *)
(***************************************************************************)
MaxTextLen == 5
TitleLetters == {"h", "a", "t"}
TitleMarks == {"-"}
UpperCase == [c \in LowerLetters |-> CHOOSE u \in UpperLetters : LowerCase[u] = c]

NoKeywords == [ofTitle |-> <<>>, ofVariant |-> <<>>]

KeywordsInit ==
    /\ kwPc = "typing"
    /\ kwTitle = <<>>
    /\ kwVariant = <<>>
    /\ kwResult = NoKeywords

Typing == kwPc = "typing" /\ Len(kwTitle) < MaxTextLen

\* the same letter in both titles, in either case in the second
TypeLetter(c, d) ==
    /\ Typing
    /\ d \in {c, UpperCase[c]}
    /\ kwTitle' = Append(kwTitle, c)
    /\ kwVariant' = Append(kwVariant, d)
    /\ UNCHANGED <<kwPc, kwResult, chatVars, briefVars, newsVars, routeVars>>

\* a punctuation mark or a space in the first title, a space in the second
TypeMark(p) ==
    /\ Typing
    /\ kwTitle' = Append(kwTitle, p)
    /\ kwVariant' = Append(kwVariant, " ")
    /\ UNCHANGED <<kwPc, kwResult, chatVars, briefVars, newsVars, routeVars>>

\* a punctuation mark in the first title only
TypeMarkInOne(p) ==
    /\ Typing
    /\ kwTitle' = Append(kwTitle, p)
    /\ UNCHANGED <<kwVariant, kwPc, kwResult, chatVars, briefVars, newsVars, routeVars>>

ExtractKeywords ==
    /\ kwPc = "typing"
    /\ kwResult' = [ofTitle |-> extractKeywords(kwTitle),
                    ofVariant |-> extractKeywords(kwVariant)]
    /\ kwPc' = "done"
    /\ UNCHANGED <<kwTitle, kwVariant, chatVars, briefVars, newsVars, routeVars>>

KeywordsNext ==
    \/ \E c \in TitleLetters, d \in UpperLetters \cup LowerLetters : TypeLetter(c, d)
    \/ \E p \in TitleMarks \cup Whitespace : TypeMark(p)
    \/ \E p \in TitleMarks : TypeMarkInOne(p)
    \/ ExtractKeywords

(***************************************************************************)
(* The Express routes that validate their input: GET                       *)
(* /api/insights/industry-pulse, GET /api/insights/compare-companies and   *)
(* POST /api/chat. A handler runs up to its first await in one step.       *)
(***************************************************************************)
MaxRequests == 2

\* a query parameter given more than once (an array), a JSON value of the
\* body that is not a string
Several == "<several>"
NotAString == "<number>"
QueryValues == {Absent, "", Several, "fintech", "apple"}
DaysValues == {Absent, "5", "abc"}
BodyValues == {Absent, "", NotAString} \cup Msgs

Falsy(v) == v \in {Absent, ""}
IsString(v) == v \notin {Absent, Several, NotAString}

\* days ? Number(days) : undefined
NumberOf(v) ==
    CASE v = "5" -> Num(5)
      [] v = "0" -> Num(0)
      [] OTHER -> NaN
DaysOf(days) == IF Falsy(days) THEN Undef ELSE NumberOf(days)
StringOrUndefined(v) == IF IsString(v) THEN v ELSE Absent

NoRequest == [route |-> Absent, industry |-> Absent, companyA |-> Absent,
              companyB |-> Absent, message |-> Absent, userId |-> Absent,
              q |-> Absent, name |-> Absent]
NoReply == [status |-> 0, error |-> Absent]
\* res.json(results) without a status: 200, the body is what the method returned
JsonSent == [status |-> 200, error |-> Absent]
BadRequest(error) == [status |-> 400, error |-> error]

RoutesInit ==
    /\ httpRequest = NoRequest
    /\ httpReply = NoReply
    /\ nRequests = 0

Received(request) ==
    /\ nRequests < MaxRequests
    /\ nRequests' = nRequests + 1
    /\ httpRequest' = request

\* !industry || typeof industry !== 'string'
IndustryMissing(industry) == Falsy(industry) \/ ~IsString(industry)

\* a check that looks at companyA only
CompaniesMissing_OnlyFirst(companyA, companyB) ==
    Falsy(companyA) \/ ~IsString(companyA)

\* !companyA || !companyB || typeof companyA !== 'string' || typeof companyB !== 'string'
CompaniesMissing(companyA, companyB) ==
    Falsy(companyA) \/ Falsy(companyB) \/ ~IsString(companyA) \/ ~IsString(companyB)

\* !message || typeof message !== 'string'
MessageMissing(message) == Falsy(message) \/ ~IsString(message)

\* GET /api/insights/industry-pulse
RouteIndustryPulse(industry, days, language) ==
    /\ Received([NoRequest EXCEPT !.route = "industry-pulse", !.industry = industry])
    /\ IF IndustryMissing(industry)
       THEN /\ httpReply' = BadRequest("industry is required")
            /\ UNCHANGED newsVars
       ELSE /\ Invoke("getIndustryPulse",
                      PulseArgs(industry, DaysOf(days), StringOrUndefined(language)),
                      PulseGets(industry, DaysOf(days), StringOrUndefined(language)))
            /\ httpReply' = NoReply
    /\ UNCHANGED <<chatVars, briefVars, kwVars>>

\* GET /api/insights/compare-companies
RouteCompareCompanies(companyA, companyB, days) ==
    /\ Received([NoRequest EXCEPT !.route = "compare-companies",
                                  !.companyA = companyA, !.companyB = companyB])
    /\ IF CompaniesMissing(companyA, companyB)
       THEN /\ httpReply' = BadRequest("companyA and companyB are required")
            /\ UNCHANGED newsVars
       ELSE /\ Invoke("compareCompanyCoverage",
                      CompareArgs(companyA, companyB, DaysOf(days)),
                      CompareGets(companyA, companyB, DaysOf(days)))
            /\ httpReply' = NoReply
    /\ UNCHANGED <<chatVars, briefVars, kwVars>>

\* GET /api/search: the handler goes on to res.json(results) in the same
\* turn when searchNews returns without awaiting anything
RouteSearch(q) ==
    /\ Received([NoRequest EXCEPT !.route = "search", !.q = q])
    /\ SearchNewsCall(q, Absent, Absent, Undef)
    /\ httpReply' = IF newsPc' = "done" THEN JsonSent ELSE NoReply
    /\ UNCHANGED <<chatVars, briefVars, kwVars>>

\* GET /api/company
RouteCompany(name) ==
    /\ Received([NoRequest EXCEPT !.route = "company", !.name = name])
    /\ GetCompanyNewsCall(name, Absent, Absent, Undef)
    /\ httpReply' = IF newsPc' = "done" THEN JsonSent ELSE NoReply
    /\ UNCHANGED <<chatVars, briefVars, kwVars>>

\* POST /api/chat, with the body express.json() hands over
PostChat(message, userId) ==
    /\ Received([NoRequest EXCEPT !.route = "chat", !.message = message, !.userId = userId])
    /\ IF MessageMissing(message)
       THEN /\ httpReply' = BadRequest("message is required")
            /\ UNCHANGED chatVars
       ELSE /\ ProcessMessageCall(IF userId = Absent THEN "default" ELSE userId, message)
            /\ httpReply' = NoReply
    /\ UNCHANGED <<briefVars, newsVars, kwVars>>

\* what the News API does with a GET of a route: it fails, or it answers
\* with the first article of the feed
RouteResponses ==
    { r \in Responses(1) :
         \/ r.status = "network"
         \/ /\ r.status = "ok"
            /\ r.data.isArray
            /\ r.data.articles = <<Feed[1]>>
            /\ r.data.totalResults = 7 }

RoutesNext ==
    \/ \E i \in QueryValues, d \in DaysValues, l \in {Absent, "fr", Several} :
          RouteIndustryPulse(i, d, l)
    \/ \E a \in QueryValues, b \in QueryValues, d \in DaysValues :
          RouteCompareCompanies(a, b, d)
    \/ \E q \in {Absent, "", "ai"} : RouteSearch(q)
    \/ \E n \in {Absent, "", "apple"} : RouteCompany(n)
    \/ \E m \in BodyValues, u \in Users \cup {Absent} : PostChat(m, u)
    \/ \E r \in RouteResponses : Respond(r)
    \/ \E i \in {1, 2}, r \in RouteResponses : CompareRespond(i, r)
    \/ \E i \in {1, 2}, r \in RouteResponses : LateRespond(i, r)
    \/ Finish
    \/ \E c \in 1..MaxInFlight, d \in HostedData : HostedReply(c, d)
    \/ \E c \in 1..MaxInFlight, k \in {"error", "timeout"} : HostedFail(c, k)

Init == ChatInit /\ BriefInit /\ NewsInit /\ KeywordsInit /\ RoutesInit
FreshInit == ChatFresh /\ Init
SpecChat == Init /\ [][ChatNext]_vars
SpecBrief == FreshInit /\ [][BriefNext]_vars
SpecNews == FreshInit /\ [][NewsNext]_vars
SpecKeywords == FreshInit /\ [][KeywordsNext]_vars
SpecRoutes == FreshInit /\ [][RoutesNext]_vars

\* axios rejects a request that is not answered within its timeout of 120 s
\* and the event loop then runs the catch block of the suspended call
TimeoutFires == \A c \in 1..MaxInFlight : WF_vars(HostedFail(c, "timeout"))

\* the processMessage calls and what the hosted endpoint does with them
ProcessMessageNext ==
    \/ \E u \in Users, m \in Msgs : ProcessMessageStart(u, m)
    \/ \E c \in 1..MaxInFlight, d \in HostedData : HostedReply(c, d)
    \/ \E c \in 1..MaxInFlight, k \in {"error", "timeout"} : HostedFail(c, k)
SpecChatLive == FreshInit /\ [][ProcessMessageNext]_vars /\ TimeoutFires

(***************************************************************************)
(* Claim on the brief buffer                                               *)
(***************************************************************************)

\* C4: after any sequence of sendNewsBrief calls recentBriefs holds at most
\* 10 entries, newest first: it is the briefs of the last min(n, 10) calls
\* in reverse call order (so the eleventh-newest brief is the one removed).
C4_BriefsNewestFirst ==
    LET n == Len(briefLog)
    IN  /\ Len(recentBriefs) = Min(n, BriefLimit)
        /\ \A i \in 1..Len(recentBriefs) : recentBriefs[i] = briefLog[n + 1 - i]

\* more than ten briefs were sent, and the buffer dropped the oldest
C4_Witness ==
    /\ Len(briefLog) > BriefLimit
    /\ Len(recentBriefs) = BriefLimit
    /\ recentBriefs[BriefLimit] # briefLog[1]

(***************************************************************************)
(* Claims on the News API operations                                       *)
(***************************************************************************)
QueryOps == {"getTopHeadlines", "searchNews", "getCompanyNews"}
InsightOps == {"getIndustryPulse", "compareCompanyCoverage", "getMarketMovingEvents"}

\* the GET failed: no connection, a status outside 2xx, or a body without an
\* articles array
Failed(resp) ==
    \/ resp.status \in {"network", "non2xx"}
    \/ resp.status = "ok" /\ ~resp.data.isArray
Succeeded(resp) == resp.status = "ok" /\ resp.data.isArray

\* C5: getTopHeadlines, searchNews and getCompanyNews issue at most one GET
\* per invocation, and when that GET fails they return exactly
\* {articles: [], totalResults: 0} and throw nothing.
C5_FailureGivesEmpty ==
    newsOp \in QueryOps =>
        /\ Len(requests) <= 1
        /\ (newsPc = "done" /\ Len(requests) = 1 /\ Failed(received[1])) =>
               newsResult = [threw |-> FALSE, value |-> [articles |-> <<>>, totalResults |-> 0]]

\* searchNews has returned after its GET resolved with a body that has no
\* articles array
C5_Witness ==
    /\ newsOp = "searchNews"
    /\ newsPc = "done"
    /\ Len(requests) = 1
    /\ received[1].status = "ok"
    /\ ~received[1].data.isArray

\* C6: getIndustryPulse, compareCompanyCoverage and getMarketMovingEvents
\* never throw; when an upstream call fails (for the comparison, either of
\* the two) they return the default result: zero totals and empty lists.
C6_InsightsDegrade ==
    (newsPc = "done" /\ newsOp \in InsightOps) =>
        /\ ~newsResult.threw
        /\ (\E i \in DOMAIN received : Failed(received[i])) =>
              LET v == newsResult.value
              IN  CASE newsOp = "getIndustryPulse" ->
                         /\ v.totalResults = 0
                         /\ v.topSources = <<>>
                         /\ v.topKeywords = <<>>
                         /\ v.notableHeadlines = <<>>
                    [] newsOp = "compareCompanyCoverage" ->
                         /\ v.companyA.totalResults = 0
                         /\ v.companyA.recentHeadlines = <<>>
                         /\ v.companyB.totalResults = 0
                         /\ v.companyB.recentHeadlines = <<>>
                         /\ v.deltaCoverage = 0
                    [] newsOp = "getMarketMovingEvents" ->
                         /\ v.totalScanned = 0
                         /\ v.events = <<>>

\* compareCompanyCoverage has returned after its first search succeeded with
\* results and its second failed
C6_Witness ==
    /\ newsOp = "compareCompanyCoverage"
    /\ newsPc = "done"
    /\ Succeeded(received[1])
    /\ received[1].data.totalResults > 0
    /\ Failed(received[2])

\* C7: whatever days is requested, the windowDays getIndustryPulse returns
\* lies in [1,14], on success and on upstream failure alike.
C7_PulseWindowClamped ==
    (newsPc = "done" /\ newsOp = "getIndustryPulse") =>
        newsResult.value.windowDays \in MinDays..PulseMaxDays

\* C8: whatever days is requested, the windowDays getMarketMovingEvents
\* returns lies in [1,7] and the windowDays compareCompanyCoverage returns
\* lies in [1,14], upstream failure included.
C8_WindowsClamped ==
    /\ (newsPc = "done" /\ newsOp = "getMarketMovingEvents") =>
          newsResult.value.windowDays \in MinDays..MoversMaxDays
    /\ (newsPc = "done" /\ newsOp = "compareCompanyCoverage") =>
          newsResult.value.windowDays \in MinDays..PulseMaxDays

\* C9: the pageSize getTopHeadlines, searchNews and getCompanyNews send
\* upstream is at most 100; it is 20 (headlines, search) or 10 (company news)
\* when pageSize is omitted or 0; a requested value in 1..100 is sent as is.
C9_PageSizeSent ==
    (newsOp \in QueryOps /\ Len(requests) = 1) =>
        LET sent == requests[1].params.pageSize
            asked == newsArgs.pageSize
            fallback == IF newsOp = "getCompanyNews" THEN 10 ELSE 20
        IN  /\ sent <= 100
            /\ (asked.kind = "undefined" \/ (asked.kind = "num" /\ asked.val = 0)) =>
                   sent = fallback
            /\ (asked.kind = "num" /\ asked.val \in 1..100) => sent = asked.val

\* getCompanyNews was asked for 500 articles and its GET is out
C9_Witness ==
    /\ newsOp = "getCompanyNews"
    /\ newsPc = "awaiting"
    /\ newsArgs.pageSize = Num(500)
    /\ Len(requests) = 1

\* the articles of a response as the headlines of a comparison side
FrontHeadlines(resp) ==
    LET arts == resp.data.articles
        n == IF Len(arts) < 3 THEN Len(arts) ELSE 3
    IN  [i \in 1..n |->
           [title |-> IF arts[i].title = NoText THEN <<>> ELSE arts[i].title,
            source |-> IF arts[i].source = Absent THEN "unknown" ELSE arts[i].source,
            publishedAt |-> IF arts[i].publishedAt = Absent THEN "" ELSE arts[i].publishedAt,
            url |-> IF arts[i].url = Absent THEN "" ELSE arts[i].url]]

\* C10: when both searches of compareCompanyCoverage succeed, the result
\* carries each side's upstream totalResults, at most 3 headlines per side
\* from the front of that side's articles, and deltaCoverage = total(A) -
\* total(B); swapping the companies negates deltaCoverage; with no results
\* on either side deltaCoverage is 0 and both headline lists are empty.
C10_ComparisonOnSuccess ==
    (/\ newsOp = "compareCompanyCoverage"
     /\ newsPc = "done"
     /\ pending = {}
     /\ Succeeded(received[1])
     /\ Succeeded(received[2])) =>
        LET v == newsResult.value
            a == received[1].data
            b == received[2].data
            swapped == CompareOutcome([newsArgs EXCEPT !.companyA = newsArgs.companyB,
                                                       !.companyB = newsArgs.companyA],
                                      received[2], received[1]).value
        IN  /\ v.companyA.totalResults = a.totalResults
            /\ v.companyB.totalResults = b.totalResults
            /\ v.companyA.name = newsArgs.companyA
            /\ v.companyB.name = newsArgs.companyB
            /\ v.companyA.recentHeadlines = FrontHeadlines(received[1])
            /\ v.companyB.recentHeadlines = FrontHeadlines(received[2])
            /\ v.deltaCoverage = a.totalResults - b.totalResults
            /\ swapped.deltaCoverage = 0 - v.deltaCoverage
            /\ swapped.companyA = v.companyB
            /\ (a.totalResults = 0 /\ b.totalResults = 0 /\ a.articles = <<>> /\ b.articles = <<>>) =>
                  /\ v.deltaCoverage = 0
                  /\ v.companyA.recentHeadlines = <<>>
                  /\ v.companyB.recentHeadlines = <<>>

\* a comparison has returned where side A had more than 3 articles and the
\* totals differ
C10_Witness ==
    /\ newsOp = "compareCompanyCoverage"
    /\ newsPc = "done"
    /\ pending = {}
    /\ Succeeded(received[1])
    /\ Succeeded(received[2])
    /\ Len(received[1].data.articles) > 3
    /\ received[1].data.totalResults < received[2].data.totalResults
    /\ newsResult.value.deltaCoverage < 0

\* the stored message list of a user (empty when the map has no entry)
History(u) == IF conversations[u] = 0 THEN <<>> ELSE heap[conversations[u]]

\* the log entries of the messages a user's entry still stores
StoredLog(u) ==
    IF conversations[u] = 0 THEN <<>>
    ELSE SliceLast(log[conversations[u]], Len(heap[conversations[u]]))

Strip(entries) == [i \in 1..Len(entries) |-> Message(entries[i].role, entries[i].content)]

(***************************************************************************)
(* Claims on the conversation cache                                        *)
(***************************************************************************)

\* C1: in every reachable state the stored message list of every user holds
\* at most 20 messages, also while a processMessage call is waiting for the
\* hosted endpoint.
C1_HistoryAtMost20 == \A u \in Users : Len(History(u)) <= HistoryLimit

\* C2: when a processMessage(userId, msg) call has completed, whatever the
\* hosted endpoint did, the user's history contains the user message msg
\* immediately followed by an assistant message whose content is the string
\* the call returned.
C2_ExchangeRecorded ==
    lastDone # NoCall =>
        LET stored == StoredLog(lastDone.userId)
        IN  \E i \in 1..(Len(stored) - 1) :
                /\ stored[i] = LogEntry("user", lastDone.userMessage, lastDone.callNo)
                /\ stored[i + 1] = LogEntry("assistant", lastDone.returned, lastDone.callNo)

\* a step that pushed onto messages array o and did nothing else to it
PurePush(o) ==
    /\ Len(heap'[o]) = Len(heap[o]) + 1
    /\ SubSeq(heap'[o], 1, Len(heap[o])) = heap[o]

\* C3: whenever a history is truncated, the messages kept are exactly the 20
\* most recently appended ones in their append order (so a message is dropped
\* only when 20 messages were appended after it, and nothing kept is older
\* than something dropped).
C3_TruncationKeepsNewest ==
    [][\A o \in DOMAIN heap :
          (heap'[o] # heap[o] /\ ~PurePush(o)) =>
              /\ Len(heap'[o]) = HistoryLimit
              /\ heap'[o] = Strip(SliceLast(log'[o], HistoryLimit))]_vars

\* a call has just returned after its reply made the list longer than 20 and
\* the oldest messages were dropped
C3_Witness ==
    /\ lastDone # NoCall
    /\ lastDone.returned # TroubleText
    /\ \E u \in Users :
          /\ conversations[u] # 0
          /\ Len(log[conversations[u]]) > Len(History(u))
          /\ Len(History(u)) = HistoryLimit
          /\ History(u)[HistoryLimit].role = "assistant"
          /\ History(u)[1].role = "assistant"

(***************************************************************************)
(* Further claims on the News API operations                               *)
(***************************************************************************)
\* a query method has returned the articles of a well-formed response
QueryReturned ==
    /\ newsOp \in QueryOps
    /\ newsPc = "done"
    /\ Len(requests) = 1
    /\ Succeeded(received[1])

Defined(article) ==
    /\ article.title # NoText
    /\ \A f \in {"description", "url", "source", "publishedAt", "author", "content"} :
          article[f] # Absent

\* what normalization does with the fields other than content
NormalizedBut(raw, out) ==
    /\ Defined(out)
    /\ raw.author = Absent => out.author = "Unknown"
    /\ raw.description = Absent => out.description = ""
    /\ raw.url # Absent => out.url = raw.url
    /\ raw.title # NoText => out.title = raw.title

\* C12 as stated: every upstream article is mapped to a record with all
\* seven fields defined, a missing author becoming "Unknown", a missing
\* description "" and a missing content ""; same length and order.
C12_MissingContentEmpty ==
    QueryReturned =>
        LET raw == received[1].data.articles
            out == newsResult.value.articles
        IN  /\ Len(out) = Len(raw)
            /\ \A i \in 1..Len(raw) :
                  /\ NormalizedBut(raw[i], out[i])
                  /\ raw[i].content = Absent => out[i].content = ""

\* C12 amended: as above, but a missing content becomes the article's
\* description when it has a non-empty one, and "" otherwise.
C12_MissingContentFromDescription ==
    QueryReturned =>
        LET raw == received[1].data.articles
            out == newsResult.value.articles
        IN  /\ Len(out) = Len(raw)
            /\ \A i \in 1..Len(raw) :
                  /\ NormalizedBut(raw[i], out[i])
                  /\ raw[i].content = Absent =>
                        out[i].content = IF raw[i].description \in {Absent, ""}
                                         THEN "" ELSE raw[i].description

\* a query method returned an article that came without author and content
\* but with a description, and one that came with nothing at all
C12_Witness ==
    /\ QueryReturned
    /\ \E i \in 1..Len(received[1].data.articles) :
          LET raw == received[1].data.articles[i]
          IN  raw.author = Absent /\ raw.content = Absent /\ raw.description = "d2"
    /\ \E i \in 1..Len(received[1].data.articles) :
          received[1].data.articles[i].description = Absent

\* C14: compareCompanyCoverage returns only after both of its searches have
\* completed; it never returns while one of them is still outstanding.
C14_JoinedBeforeReturn ==
    (newsOp = "compareCompanyCoverage" /\ newsPc = "done") => pending = {}

RECURSIVE SumCounts(_)
SumCounts(entries) ==
    IF entries = <<>> THEN 0 ELSE Head(entries).count + SumCounts(Tail(entries))

\* the number of places of a sequence that hold x, and the first of them
Occurrences(seq, x) == Cardinality({i \in 1..Len(seq) : seq[i] = x})
FirstPlace(seq, x) ==
    CHOOSE i \in 1..Len(seq) : seq[i] = x /\ \A j \in 1..(i - 1) : seq[j] # x

\* top is a ranking of the values of seq: true counts, larger counts first,
\* equal counts in order of first occurrence, nothing left out that counts
\* more than a listed value
RankingOf(top, seq, limit) ==
    /\ Len(top) <= limit
    /\ \A i \in 1..Len(top) :
          /\ top[i].count >= 1
          /\ top[i].count = Occurrences(seq, top[i].key)
    /\ \A i \in 1..Len(top), j \in 1..Len(top) :
          i < j =>
             \/ top[i].count > top[j].count
             \/ /\ top[i].count = top[j].count
                /\ FirstPlace(seq, top[i].key) < FirstPlace(seq, top[j].key)
    /\ \A p \in 1..Len(seq) :
          (\A i \in 1..Len(top) : top[i].key # seq[p]) =>
             /\ Len(top) = limit
             /\ Occurrences(seq, seq[p]) <= top[limit].count

FirstHeadlines(resp, n) ==
    LET arts == resp.data.articles
        m == IF Len(arts) < n THEN Len(arts) ELSE n
    IN  [i \in 1..m |->
           [title |-> IF arts[i].title = NoText THEN <<>> ELSE arts[i].title,
            source |-> IF arts[i].source = Absent THEN "unknown" ELSE arts[i].source,
            publishedAt |-> IF arts[i].publishedAt = Absent THEN "" ELSE arts[i].publishedAt,
            url |-> IF arts[i].url = Absent THEN "" ELSE arts[i].url]]

PulseSucceeded ==
    /\ newsOp = "getIndustryPulse"
    /\ newsPc = "done"
    /\ Succeeded(received[1])

\* C17: on success getIndustryPulse returns at most 3 topSources and at most
\* 5 topKeywords, each in non-increasing order of count with ties in order
\* of first occurrence, every count at least 1, the source counts summing to
\* at most the number of fetched articles (for which it asked with pageSize
\* 15), and notableHeadlines equal to the first 5 (or fewer) fetched articles
\* in upstream order.
C17_PulseRanking ==
    PulseSucceeded =>
        LET v == newsResult.value
            raw == received[1].data.articles
            sources == [i \in 1..Len(raw) |->
                          IF raw[i].source = Absent THEN "unknown" ELSE raw[i].source]
            keywords == TitleKeywords([i \in 1..Len(raw) |->
                          [title |-> IF raw[i].title = NoText THEN <<>> ELSE raw[i].title]])
        IN  /\ RankingOf(v.topSources, sources, 3)
            /\ RankingOf(v.topKeywords, keywords, 5)
            /\ SumCounts(v.topSources) <= Len(raw)
            /\ requests[1].params.pageSize = 15
            /\ v.notableHeadlines = FirstHeadlines(received[1], 5)
            /\ v.totalResults = received[1].data.totalResults

\* a pulse over more than 5 articles of more than 3 sources, where two of the
\* listed sources have the same count and 5 keywords are listed
C17_Witness ==
    /\ PulseSucceeded
    /\ Len(received[1].data.articles) > 5
    /\ Len(newsResult.value.topSources) = 3
    /\ newsResult.value.topSources[1].count = newsResult.value.topSources[2].count
    /\ newsResult.value.topSources[3].count = 1
    /\ Len(newsResult.value.topKeywords) = 5
    /\ newsResult.value.topKeywords[4].count = newsResult.value.topKeywords[5].count

\* C18: getMarketMovingEvents searches for 'earnings OR merger OR layoffs'
\* when the query is omitted or empty and for the given query otherwise; on
\* success it returns at most 6 events, the first 6 fetched articles in
\* upstream order, each with the trigger label 'event'.
C18_MoversEvents ==
    (newsOp = "getMarketMovingEvents" /\ Len(requests) = 1) =>
        /\ requests[1].params.q =
              IF newsArgs.query \in {Absent, ""}
              THEN "earnings OR merger OR layoffs" ELSE newsArgs.query
        /\ (newsPc = "done" /\ Succeeded(received[1])) =>
              LET events == newsResult.value.events
                  front == FirstHeadlines(received[1], 6)
              IN  /\ Len(events) = Len(front)
                  /\ Len(events) <= 6
                  /\ \A i \in 1..Len(events) :
                        /\ events[i].trigger = "event"
                        /\ events[i].title = front[i].title
                        /\ events[i].source = front[i].source
                        /\ events[i].publishedAt = front[i].publishedAt
                        /\ events[i].url = front[i].url

\* a market-movers call without a query has returned 6 events out of more
\* than 6 fetched articles
C18_Witness ==
    /\ newsOp = "getMarketMovingEvents"
    /\ newsPc = "done"
    /\ newsArgs.query = ""
    /\ Succeeded(received[1])
    /\ Len(received[1].data.articles) > 6
    /\ Len(newsResult.value.events) = 6

(***************************************************************************)
(* Claim on keyword extraction                                             *)
(***************************************************************************)
Punctuation(c) == c \notin UpperLetters \cup LowerLetters \cup Digits \cup Whitespace
SameLetter(c, d) ==
    \/ c = d
    \/ c \in UpperLetters /\ LowerCase[c] = d
    \/ d \in UpperLetters /\ LowerCase[d] = c

\* the two titles are the same once their punctuation is taken out and the
\* case of their letters is ignored
OnlyCaseOrPunctuation(t, v) ==
    LET a == SelectSeq(t, LAMBDA c : ~Punctuation(c))
        b == SelectSeq(v, LAMBDA c : ~Punctuation(c))
    IN  /\ Len(a) = Len(b)
        /\ \A i \in 1..Len(a) : SameLetter(a[i], b[i])

\* the two titles have, place by place, the same letter in either case, or
\* each a punctuation mark or a space
SamePlaces(t, v) ==
    /\ Len(t) = Len(v)
    /\ \A i \in 1..Len(t) :
          \/ SameLetter(t[i], v[i])
          \/ /\ Punctuation(t[i]) \/ t[i] \in Whitespace
             /\ Punctuation(v[i]) \/ v[i] \in Whitespace

KeywordsOnly(tokens) ==
    \A i \in 1..Len(tokens) :
        /\ Len(tokens[i]) > 3
        /\ tokens[i] \notin StopWords
        /\ \A j \in 1..Len(tokens[i]) : tokens[i][j] \notin UpperLetters

\* C19 as stated: extractKeywords never returns a token of 3 or fewer
\* characters or a stop-word, every token is lower-case, and two titles that
\* differ only in letter case or punctuation yield the same keyword list.
C19_CaseAndPunctuationIgnored ==
    kwPc = "done" =>
        /\ KeywordsOnly(kwResult.ofTitle)
        /\ KeywordsOnly(kwResult.ofVariant)
        /\ OnlyCaseOrPunctuation(kwTitle, kwVariant) =>
              kwResult.ofTitle = kwResult.ofVariant

\* C19 amended: as above, for two titles that differ only in letter case or
\* in which punctuation mark or space stands at a place.
C19_CaseIgnoredMarksAsSpaces ==
    kwPc = "done" =>
        /\ KeywordsOnly(kwResult.ofTitle)
        /\ KeywordsOnly(kwResult.ofVariant)
        /\ SamePlaces(kwTitle, kwVariant) =>
              kwResult.ofTitle = kwResult.ofVariant

\* a keyword was extracted from two titles that differ in case and in a
\* punctuation mark
C19_Witness ==
    /\ kwPc = "done"
    /\ SamePlaces(kwTitle, kwVariant)
    /\ \E i \in 1..Len(kwTitle) : kwTitle[i] # kwVariant[i] /\ kwVariant[i] \in UpperLetters
    /\ \E i \in 1..Len(kwTitle) : Punctuation(kwTitle[i]) /\ kwVariant[i] \in Whitespace
    /\ Len(kwResult.ofTitle) = 1

(***************************************************************************)
(* Further claims on the chat service                                      *)
(***************************************************************************)
\* C13: the two messages of one exchange are always adjacent in the user's
\* history: nothing changes or replaces the stored conversation between the
\* append of a request's user message and the append of its reply.
C13_ExchangeAdjacent ==
    \A u \in Users :
        conversations[u] # 0 =>
            LET entries == log[conversations[u]]
            IN  \A i \in 1..Len(entries) :
                   entries[i].role = "assistant" =>
                      /\ i > 1
                      /\ entries[i - 1].role = "user"
                      /\ entries[i - 1].callNo = entries[i].callNo

\* C16: an entry of the map is removed only by clearConversation, and once a
\* user's history is empty (no entry, or a new one) it stays empty until the
\* next processMessage of that user starts, whatever calls were in flight.
C16_ClearedUntilNextMessage ==
    [][\A u \in Users :
          /\ (conversations[u] # 0 /\ conversations'[u] = 0) => nClears' = nClears + 1
          /\ (conversations[u] # 0 /\ nClears' = nClears) =>
                conversations'[u] = conversations[u]
          /\ (History(u) = <<>> /\ History(u)' # <<>>) =>
                /\ nCalls'[u] = nCalls[u] + 1
                /\ History(u)' = <<Message("user", "hi")>>]_vars

\* the reply of a call that was in flight when its user's conversation was
\* cleared has arrived, and the user's history is empty
C16_Witness ==
    /\ nClears > 0
    /\ lastDone.returned = "reply"
    /\ History(lastDone.userId) = <<>>

\* C20: an operation for one user leaves the stored history of every other
\* user unchanged: a user's history changes only in a step of that user's
\* own processMessage or clearConversation, and no step changes two.
C20_UsersIsolated ==
    [][\A v \in Users :
          History(v)' # History(v) =>
             /\ \/ nCalls'[v] = nCalls[v] + 1
                \/ \E c \in 1..MaxInFlight :
                      /\ calls[c].pc = "awaiting"
                      /\ calls[c].userId = v
                      /\ calls'[c].pc = "idle"
                \/ conversations[v] # 0 /\ conversations'[v] = 0
             /\ \A u \in Users \ {v} : History(u)' = History(u)]_vars

\* both users have a stored history, a reply for one of them has just been
\* appended while a call of the other one is in flight
C20_Witness ==
    /\ \A u \in Users : History(u) # <<>>
    /\ lastDone.returned = "reply"
    /\ \E c \in 1..MaxInFlight :
          calls[c].pc = "awaiting" /\ calls[c].userId # lastDone.userId

LacksRequired(request) ==
    \/ request.route = "industry-pulse" /\ request.industry = Absent
    \/ /\ request.route = "compare-companies"
       /\ request.companyA = Absent \/ request.companyB = Absent
    \/ request.route = "chat" /\ request.message \in {Absent, NotAString}

\* C11: a request missing a required parameter is answered with status 400
\* and an error body and has no other effect: no News API request is issued
\* for industry-pulse without industry or compare-companies without
\* companyA or companyB, and POST /api/chat without a string message issues
\* no hosted-agent request and neither creates nor changes a conversation.
C11_MissingParameterRejected ==
    [][(nRequests' = nRequests + 1 /\ LacksRequired(httpRequest')) =>
          /\ httpReply'.status = 400
          /\ httpReply'.error \notin {Absent, ""}
          /\ requests' = requests
          /\ pending' = pending
          /\ newsPc' = newsPc
          /\ calls' = calls
          /\ conversations' = conversations
          /\ heap' = heap
          /\ recentBriefs' = recentBriefs]_vars

\* compare-companies was asked without companyB and answered 400 while a
\* processMessage call was suspended
C11_Witness ==
    /\ httpRequest.route = "compare-companies"
    /\ httpRequest.companyA = "apple"
    /\ httpRequest.companyB = Absent
    /\ httpReply.status = 400
    /\ requests = <<>>
    /\ \E c \in 1..MaxInFlight : calls[c].pc = "awaiting"

\* C21: searchNews without a query and getCompanyNews without a companyName
\* return {articles: [], totalResults: 0} without issuing an outbound
\* request, so GET /api/search without q and GET /api/company without name
\* are answered with the empty result and not with a 400 error.
C21_MissingQueryGivesEmpty ==
    [][(/\ nRequests' = nRequests + 1
        /\ \/ httpRequest'.route = "search" /\ httpRequest'.q \in {Absent, ""}
           \/ httpRequest'.route = "company" /\ httpRequest'.name \in {Absent, ""}) =>
          /\ httpReply'.status = 200
          /\ httpReply'.error = Absent
          /\ newsOp' = IF httpRequest'.route = "search"
                       THEN "searchNews" ELSE "getCompanyNews"
          /\ newsPc' = "done"
          /\ newsResult' = [threw |-> FALSE,
                            value |-> [articles |-> <<>>, totalResults |-> 0]]
          /\ requests' = <<>>
          /\ pending' = {}]_vars

\* GET /api/company without name has been answered with the empty result,
\* no GET was issued
C21_Witness ==
    /\ httpRequest.route = "company"
    /\ httpRequest.name = Absent
    /\ httpReply.status = 200
    /\ newsOp = "getCompanyNews"
    /\ newsResult.value = EmptyResult
    /\ requests = <<>>
====
